---- MODULE Spec2Model ----
(***************************************************************************)
(* The cached retrieval facades of the FPL tools and the HTML price        *)
(* parser:                                                                 *)
(*   fpl/scripts/fpl_utils.py          StatsTracker, FPLUtils              *)
(*   livefpl/scripts/livefpl_utils.py  StatsTracker, LiveFPLUtils          *)
(* One process owns one utils object (variant "json" or "html"), one cache *)
(* directory and one stats sidecar file.  The remote, the file system and  *)
(* the clock are the environment.                                          *)
(***************************************************************************)
EXTENDS Integers, Sequences, FiniteSets, TLC

(***************************************************************************)
(* Bounds of the model.                                                    *)
(***************************************************************************)
\* facade calls in one behaviour
MaxCalls == 2
\* clock ticks the clock may advance
MaxTime == 6
\* tags in a parsed document (SpecParse)
MaxTags == 3

\* The clock advances in ticks of six hours; all times are in seconds.
TickSeconds == 6 * 3600
SecondsPerDay == 24 * 3600
\* UTC offsets of the machine's local time zone (UTC-6, UTC, UTC+6)
TzOffsets == {0 - TickSeconds, 0, TickSeconds}

URLs == {"u1", "u2"}
Keys == {"k1", "k2"}

(***************************************************************************)
(* Python dict helpers.                                                    *)
(***************************************************************************)
EmptyDict == [x \in {} |-> 0]
DictGet(d, k, default) == IF k \in DOMAIN d THEN d[k] ELSE default
DictSet(d, k, v) == [x \in DOMAIN d \cup {k} |-> IF x = k THEN v ELSE d[x]]

(***************************************************************************)
(* HTML documents.  A document is a sequence of opening tags; a tag is     *)
(*   [elem, attrs, gap, cr]: the element name, the attributes in textual   *)
(*   order (each [name, val], val the text between the quotes), the number *)
(*   of cells of plain text that follow the tag's ">", and the number of   *)
(*   cells that the carriage returns of that text's "\r\n" line ends fill. *)
(* Text is measured in cells of CellChars characters: the "<elem" opener   *)
(* is one cell and every attribute is one cell, so that a window of text   *)
(* always holds whole attributes.                                          *)
(***************************************************************************)
CellChars == 4 * 5
\* html[start:start+300]
WindowChars == 300
WindowCells == WindowChars \div CellChars

\* int(m.group('id')) for the text captured by \d+ ; "none" when the text after
\* the optional quote does not start with a digit (the regex does not match).
\* "12ab" matches with the group "12": \d+ stops at the first non-digit.
IdTexts == {"10", "010", "7", "12ab", "x9"}
IdOf(s) ==
    CASE s = "10" -> [ok |-> TRUE, id |-> 10]
      [] s = "010" -> [ok |-> TRUE, id |-> 10]
      [] s = "7" -> [ok |-> TRUE, id |-> 7]
      [] s = "12ab" -> [ok |-> TRUE, id |-> 12]
      [] OTHER -> [ok |-> FALSE, id |-> 0]

\* float(text), in tenths; None when float() raises ValueError or when the
\* value pattern [^"'>\s]+ matches nothing (the empty value).
AttrTexts == {"5.2", "5.20", "9.9", "-1.1", "1e1", "N/A", ""}
None == [none |-> TRUE]
Float(s) ==
    CASE s = "5.2" -> [none |-> FALSE, tenths |-> 52]
      [] s = "5.20" -> [none |-> FALSE, tenths |-> 52]
      [] s = "9.9" -> [none |-> FALSE, tenths |-> 99]
      [] s = "-1.1" -> [none |-> FALSE, tenths |-> 0 - 11]
      [] s = "1e1" -> [none |-> FALSE, tenths |-> 100]
      [] OTHER -> None

Lower(e) == IF e = "DIV" THEN "div" ELSE e

\* positions (1-based) in attrs of the attributes called name
AttrPositions(attrs, name) == {i \in 1..Len(attrs) : attrs[i].name = name}
Min(S) == CHOOSE x \in S : \A y \in S : x <= y
Max(S) == CHOOSE x \in S : \A y \in S : x >= y

\* Faulty variant of AttrFloat: a value of the tag that fails the coercion
\* blanks every numeric field of the record.
AttrFloatBlanksAll(attrs, name) ==
    LET P == {i \in AttrPositions(attrs, name) : attrs[i].val # ""}
    IN  IF P = {} \/ \E i \in 1..Len(attrs) :
                       /\ attrs[i].name \in {"data-now", "data-tonight"}
                       /\ attrs[i].val # ""
                       /\ Float(attrs[i].val) = None
        THEN None ELSE Float(attrs[Min(P)].val)

\* re.search(r'data-now\s*=\s*["\']?([^"\'>\s]+)["\']?', tag_text) and the
\* float() coercion under try/except: the first attribute of that name whose
\* value is not empty decides.
AttrFloat(attrs, name) ==
    LET P == {i \in AttrPositions(attrs, name) : attrs[i].val # ""}
    IN  IF P = {} THEN None ELSE Float(attrs[Min(P)].val)

\* Faulty variant of PrimaryIdPositions: the pattern opens with "<\w+" and
\* takes a tag of any element.
PrimaryIdPositionsAnyElement(tag) ==
    {i \in 1..Len(tag.attrs) :
       /\ tag.attrs[i].name \in {"data-id", "DATA-ID"}
       /\ IdOf(tag.attrs[i].val).ok}

\* The primary regex on one tag: <div (any case), then [^>]* greedy up to a
\* data-id whose value starts with digits: the last such attribute of the tag.
PrimaryIdPositions(tag) ==
    IF Lower(tag.elem) # "div" THEN {}
    ELSE {i \in 1..Len(tag.attrs) :
            /\ tag.attrs[i].name \in {"data-id", "DATA-ID"}
            /\ IdOf(tag.attrs[i].val).ok}

PrimaryRecord(tag) ==
    [id |-> IdOf(tag.attrs[Max(PrimaryIdPositions(tag))].val).id,
     pct_now |-> AttrFloat(tag.attrs, "data-now"),
     pct_tonight |-> AttrFloat(tag.attrs, "data-tonight")]

RECURSIVE PrimaryScan(_)
PrimaryScan(html) ==
    IF html = <<>> THEN <<>>
    ELSE LET rest == PrimaryScan(Tail(html))
         IN  IF PrimaryIdPositions(Head(html)) = {} THEN rest
             ELSE <<PrimaryRecord(Head(html))>> \o rest

\* The document as the sequence of its attribute occurrences, each with the
\* cell it starts at: [name, val, cell].
RECURSIVE Occurrences(_, _)
Occurrences(html, at) ==
    IF html = <<>> THEN <<>>
    ELSE LET tag == Head(html)
             own == [i \in 1..Len(tag.attrs) |->
                       [name |-> tag.attrs[i].name, val |-> tag.attrs[i].val,
                        cell |-> at + i]]
         IN  own \o Occurrences(Tail(html), at + 1 + Len(tag.attrs) + tag.gap)

\* re.search in window = html[start:start+300]: the first occurrence of the
\* attribute, with a non-empty value, that lies in the window.
WindowFloat(occ, start, name) ==
    LET P == {i \in 1..Len(occ) :
                /\ occ[i].name = name
                /\ occ[i].val # ""
                /\ occ[i].cell >= start
                /\ occ[i].cell < start + WindowCells}
    IN  IF P = {} THEN None ELSE Float(occ[Min(P)].val)

\* The fallback scan: every data-id occurrence (case-sensitive, any element).
RECURSIVE FallbackScan(_, _)
FallbackScan(occ, i) ==
    IF i > Len(occ) THEN <<>>
    ELSE LET rest == FallbackScan(occ, i + 1)
         IN  IF occ[i].name = "data-id" /\ IdOf(occ[i].val).ok
             THEN <<[id |-> IdOf(occ[i].val).id,
                     pct_now |-> WindowFloat(occ, occ[i].cell, "data-now"),
                     pct_tonight |-> WindowFloat(occ, occ[i].cell, "data-tonight")]>>
                  \o rest
             ELSE rest

\* Faulty variant of Dedup: unique_players[pid] = p without the membership
\* test, so that the last record of an id replaces the first in its place.
RECURSIVE DedupOverwrite(_, _)
DedupOverwrite(players, seen) ==
    IF players = <<>> THEN <<>>
    ELSE LET p == Head(players)
             latest == Max({i \in 1..Len(players) : players[i].id = p.id})
         IN  IF p.id \in seen THEN DedupOverwrite(Tail(players), seen)
             ELSE <<players[latest]>>
                  \o DedupOverwrite(Tail(players), seen \cup {p.id})

\* unique_players: keep the first record of every id, in first-seen order
\* (a Python dict keeps insertion order).
RECURSIVE Dedup(_, _)
Dedup(players, seen) ==
    IF players = <<>> THEN <<>>
    ELSE LET p == Head(players)
         IN  IF p.id \in seen THEN Dedup(Tail(players), seen)
             ELSE <<p>> \o Dedup(Tail(players), seen \cup {p.id})

ScannedPlayers(html) ==
    LET primary == PrimaryScan(html)
    IN  IF primary # <<>> THEN primary
        ELSE FallbackScan(Occurrences(html, 0), 1)

\* Faulty variant of _parse_prices_html: the stamp is taken once, when the
\* module is loaded, and not at the call.
_parse_prices_html_stamped_once(html, utcnow) ==
    [players |-> Dedup(ScannedPlayers(html), {}), fetched_at |-> 0]

\* LiveFPLUtils._parse_prices_html at the instant utcnow
_parse_prices_html(html, utcnow) ==
    [players |-> Dedup(ScannedPlayers(html), {}), fetched_at |-> utcnow]


(***************************************************************************)
(* Payloads.  A text is [kind, val]: "full" is the whole serialisation of  *)
(* val, "prefix" a proper prefix of it (a write that stopped half way),    *)
(* "garbage" text that is no serialisation at all, "not_utf8" bytes that   *)
(* are no UTF-8 text (a body in UTF-16 or Latin-1, a compressed body).     *)
(***************************************************************************)
JsonVals == {[a |-> 1], [a |-> 2]}

Attr(n, v) == [name |-> n, val |-> v]
Doc1 ==
    <<[elem |-> "div", gap |-> 0, cr |-> 0,
       attrs |-> <<Attr("data-id", "10"), Attr("data-now", "5.2"),
                   Attr("data-tonight", "-1.1")>>],
      [elem |-> "div", gap |-> 0, cr |-> 0,
       attrs |-> <<Attr("data-id", "10"), Attr("data-now", "9.9")>>]>>
Doc2 ==
    <<[elem |-> "div", gap |-> 0, cr |-> 0,
       attrs |-> <<Attr("data-id", "7"), Attr("data-now", "N/A")>>],
      [elem |-> "div", gap |-> 0, cr |-> 0,
       attrs |-> <<Attr("data-id", "10"), Attr("data-now", "9.9")>>]>>
\* a page with "\r\n" line ends: 3 cells of "\r" in the text between the tags
Doc3 ==
    <<[elem |-> "span", gap |-> WindowCells, cr |-> 3,
       attrs |-> <<Attr("data-id", "7")>>],
      [elem |-> "b", gap |-> 0, cr |-> 0,
       attrs |-> <<Attr("data-now", "5.2")>>]>>
HtmlDocs == {Doc1, Doc2, Doc3}

Garbage == [kind |-> "garbage"]
NotUtf8 == [kind |-> "not_utf8"]
FullText(v) == [kind |-> "full", val |-> v]
PrefixText(v) == [kind |-> "prefix", val |-> v]

\* json.load / json.loads: a proper prefix of a JSON object is not JSON
json_loads(text) ==
    IF text.kind = "full" THEN [ok |-> TRUE, val |-> text.val]
    ELSE [ok |-> FALSE, cls |-> "JSONDecodeError"]

\* json.loads(data_bytes.decode('utf-8')): the bytes are decoded first, and
\* bytes that are no UTF-8 raise UnicodeDecodeError before json.loads runs
loads_decoded(body) ==
    IF body.kind = "not_utf8" THEN [ok |-> FALSE, cls |-> "UnicodeDecodeError"]
    ELSE json_loads(body)

\* open(path, 'r', encoding='utf-8'): a text file is read with universal
\* newlines, every "\r\n" comes back as "\n" and the text is that much shorter
universal_newlines(html) ==
    [i \in 1..Len(html) |->
       [html[i] EXCEPT !.gap = @ - html[i].cr, !.cr = 0]]

\* f.read() of an utf-8 text file: a prefix of the markup is markup (the
\* document without its last tag); undecodable bytes raise
HtmlPrefix(html) == SubSeq(html, 1, Len(html) - 1)
html_read(text) ==
    CASE text.kind = "full" -> [ok |-> TRUE, val |-> universal_newlines(text.val)]
      [] text.kind = "prefix" ->
           [ok |-> TRUE, val |-> universal_newlines(HtmlPrefix(text.val))]
      [] OTHER -> [ok |-> FALSE, cls |-> "UnicodeDecodeError"]

(***************************************************************************)
(* State.                                                                  *)
(***************************************************************************)
VARIABLES
    world,          \* the scenario: the urls and cache keys the callers use and
                    \* what the environment may do (saves, writes, fetches,
                    \* bodies: the bodies the remote may answer 200 with)
                    \* and how far the clock moves at a time (step), the
                    \* force_refresh values the callers pass (force), and
                    \* whether calls and hist count the calls (counted: if
                    \* not, calls counts modulo MaxCalls and hist stands)
    variant,        \* "json": FPLUtils, "html": LiveFPLUtils
    tz,             \* the local zone's offset from UTC, seconds
    now,            \* the current instant, seconds
    cache_files,    \* cache_key -> [text, mtime], the files that exist
    stats_file,     \* the stats sidecar file: [kind, m]
    _data,          \* StatsTracker._data of the running process: [kind, m]
    started,        \* how the process started: the kind of stats file it found
                    \* and whether it could read it: [found, readable]
    hist,           \* per url, this process: calls, GETs issued, payloads fetched
    other,          \* SpecTwo: the second process on the same directory while
                    \* it is not running: [pid, _data, started, hist]
    calls,          \* facade calls so far
    populated,      \* per cache key, the last call of this behaviour that got
                    \* as far as writing the key's cache file: [at, write,
                    \* result], the instant, the write's outcome, the result
    last,           \* the facade call that has just ended: inputs, steps, result
                    \* (NoCall before the first call and once the clock moved on)
    html_in,        \* SpecParse: the document handed to the parser
    parsed,         \* SpecParse: what _parse_prices_html returned for it
    parse_log       \* SpecParse: the last two calls of the parser on html_in,
                    \* the latest last: [at, out], the instant and the result

facade_vars == <<world, variant, tz, now, cache_files, stats_file, _data, started,
                 hist, other, calls, populated, last>>
parse_vars == <<html_in, parsed, parse_log>>
vars == <<facade_vars, parse_vars>>

(***************************************************************************)
(* StatsTracker.                                                           *)
(***************************************************************************)
\* Dict[str, Dict[str, int]] = {}
EmptyStats == [kind |-> "map", m |-> EmptyDict]
NewEntry == [requests |-> 0, api_fetches |-> 0]
MissingFile == [kind |-> "missing", m |-> EmptyDict]
CorruptFile == [kind |-> "corrupt", m |-> EmptyDict]
\* valid JSON that is no object, such as []
NonMapFile == [kind |-> "nonmap", m |-> EmptyDict]

\* StatsTracker.__init__ and _load; readable: open() and read() work
_load(file, readable) ==
    IF file.kind = "missing" THEN EmptyStats
    ELSE IF ~readable \/ file.kind = "corrupt" THEN EmptyStats
    ELSE [kind |-> file.kind, m |-> file.m]

\* StatsTracker._save; outcome "ok", "open_fails" (nothing written) or
\* "partial" (opened, so truncated, and the dump stopped half way)
SaveOutcomes == {"ok", "open_fails", "partial"}

\* Faulty variant of _save: the counts are batched in memory and the file is
\* written later.
_save_deferred(data, file, outcome) == file

_save(data, file, outcome) ==
    CASE outcome = "ok" -> [kind |-> "map", m |-> data.m]
      [] outcome = "partial" -> CorruptFile
      [] OTHER -> file

\* Faulty variant of Increment: the tracker reads the stats file again
\* before it counts, and counts from what the file holds.
IncrementReloading(data, file, url, field, outcome) ==
    LET loaded == IF file.kind = "map" THEN file.m ELSE EmptyDict
        entry == DictGet(loaded, url, NewEntry)
        data2 == [kind |-> "map",
                  m |-> DictSet(loaded, url, [entry EXCEPT ![field] = @ + 1])]
    IN  [raised |-> FALSE, data |-> data2, file |-> _save(data2, file, outcome)]

\* increment_request / increment_api_fetch: a _data that is no dict has no
\* .get and raises AttributeError before anything is changed
Increment(data, file, url, field, outcome) ==
    IF data.kind # "map"
    THEN [raised |-> TRUE, data |-> data, file |-> file]
    ELSE LET entry == DictGet(data.m, url, NewEntry)
             data2 == [kind |-> "map",
                       m |-> DictSet(data.m, url, [entry EXCEPT ![field] = @ + 1])]
         IN  [raised |-> FALSE, data |-> data2, file |-> _save(data2, file, outcome)]

\* Faulty variant of increment_request: the fetch is counted along with the
\* request, before the facade has looked at the cache.
increment_request_counts_fetch(data, file, url, outcome) ==
    LET r == Increment(data, file, url, "requests", "open_fails")
    IN  IF r.raised THEN r
        ELSE Increment(r.data, file, url, "api_fetches", outcome)

\* Faulty variant of increment_request: the call is not counted.
increment_request_dropped(data, file, url, outcome) ==
    [raised |-> FALSE, data |-> data, file |-> file]

increment_request(data, file, url, outcome) ==
    Increment(data, file, url, "requests", outcome)

\* Faulty variant of increment_api_fetch: the fetch is not recorded.
increment_api_fetch_dropped(data, file, url, outcome) ==
    [raised |-> FALSE, data |-> data, file |-> file]

increment_api_fetch(data, file, url, outcome) ==
    Increment(data, file, url, "api_fetches", outcome)

\* Faulty variant of TryStats: no try/except around the tracker.
TryStatsUnguarded(r) == [data |-> r.data, file |-> r.file, propagated |-> r.raised]

\* try: self.stats.increment_...(url) / except Exception: pass
\* propagated: the facade lets the tracker's exception out
TryStats(r) == [data |-> r.data, file |-> r.file, propagated |-> FALSE]

(***************************************************************************)
(* Freshness.                                                              *)
(***************************************************************************)
cache_expiry_days == 1
cache_expiry_hours == 12

\* datetime.fromtimestamp(t).date() and date.today(): the local calendar day
LocalDate(t) == (t + tz) \div SecondsPerDay

\* Faulty variant of JsonFresh: the age in seconds against the window.
JsonFreshByAge(mtime) == now - mtime < cache_expiry_days * SecondsPerDay

\* (date.today() - file_mod_date).days < self.cache_expiry_days
JsonFresh(mtime) == LocalDate(now) - LocalDate(mtime) < cache_expiry_days

\* (datetime.utcnow() - datetime.fromtimestamp(mtime)).total_seconds(): a
\* naive UTC wall clock minus a naive local wall clock
age_seconds(mtime) == now - (mtime + tz)
HtmlFresh(mtime) == age_seconds(mtime) < cache_expiry_hours * 3600

(***************************************************************************)
(* Exceptions and the except clauses of the fetch path.                    *)
(***************************************************************************)
Parent(c) ==
    CASE c = "HTTPError" -> "URLError"
      [] c = "URLError" -> "OSError"
      [] c = "OSError" -> "Exception"
      [] c = "JSONDecodeError" -> "ValueError"
      [] c = "UnicodeDecodeError" -> "ValueError"
      [] c = "ValueError" -> "Exception"
      [] c = "AttributeError" -> "Exception"
      [] OTHER -> "BaseException"

RECURSIVE IsSubclass(_, _)
IsSubclass(c, d) ==
    \/ c = d
    \/ c # "BaseException" /\ IsSubclass(Parent(c), d)

\* the except clauses, in the order they are written
ExceptClausesJson == <<"URLError", "HTTPError", "JSONDecodeError", "Exception">>
ExceptClausesHtml == <<"URLError", "HTTPError", "Exception">>

\* Python runs the first clause whose class the exception is an instance of
Handler(clauses, exc) ==
    clauses[Min({i \in 1..Len(clauses) : IsSubclass(exc.cls, clauses[i])})]

\* Faulty variant of Raised: the clause logs the failure and returns nothing.
RaisedSwallowed(clause, exc) == [kind |-> "returned", value |-> None]

\* The Exception each clause raises: its message names a failure class (tag)
\* and carries some facts: "code" the status code, "phrase" the reason phrase,
\* "cause" the transport error, "detail" the parse error.
\* exc = [cls, reason]: reason the facts in e.reason (or in str(e))
Raised(clause, exc) ==
    CASE clause = "URLError" ->
           [kind |-> "raised", tag |-> "Network Error", facts |-> exc.reason]
      [] clause = "HTTPError" ->
           [kind |-> "raised", tag |-> "API Error",
            facts |-> {"code"} \cup exc.reason]
      [] clause = "JSONDecodeError" ->
           [kind |-> "raised", tag |-> "Data Parsing Error",
            facts |-> exc.reason]
      [] OTHER ->
           [kind |-> "raised", tag |-> "An unexpected error",
            facts |-> exc.reason]

Returned(v) == [kind |-> "returned", value |-> v]

(***************************************************************************)
(* The remote.  What request.urlopen(url) and response.read() do:          *)
(*   "resp"       a response with a 2xx status and a body                  *)
(*   "http_error" urlopen raises HTTPError (a status outside 2xx)          *)
(*   "url_error"  urlopen raises URLError (DNS, connection refused)        *)
(*   "read_error" response.read() raises (connection reset: an OSError)    *)
(***************************************************************************)
JsonBodies == {FullText(v) : v \in JsonVals} \cup {Garbage, NotUtf8}
HtmlBodies == {FullText(d) : d \in HtmlDocs}
Bodies == IF variant = "json" THEN JsonBodies ELSE HtmlBodies

AllFetchOutcomes ==
    {[kind |-> "resp", status |-> 200, body |-> b] : b \in Bodies}
    \cup {[kind |-> "resp", status |-> 204, body |-> Garbage],
          [kind |-> "http_error", status |-> 404, body |-> Garbage],
          [kind |-> "url_error", status |-> 0, body |-> Garbage],
          [kind |-> "read_error", status |-> 200, body |-> Garbage]}
FetchKinds == {"resp", "http_error", "url_error", "read_error"}
FetchOutcomes ==
    {fo \in AllFetchOutcomes :
       /\ fo.kind \in world.fetches
       /\ (fo.kind = "resp" /\ fo.status = 200) =>
            fo.body \in world.bodies[variant]}

\* request.urlopen(url), the status check and response.read(); msg: the facts
\* in the message the variant gives the HTTPError it raises itself
\* (json: f"HTTP Error {code}: {response.reason}", html: f"HTTP Error {code}")
OpenAndRead(fo, msg) ==
    CASE fo.kind = "url_error" ->
           [ok |-> FALSE, exc |-> [cls |-> "URLError", reason |-> {"cause"}]]
      [] fo.kind = "http_error" ->
           [ok |-> FALSE, exc |-> [cls |-> "HTTPError", reason |-> {"phrase"}]]
      [] fo.kind = "resp" /\ fo.status # 200 ->
           [ok |-> FALSE, exc |-> [cls |-> "HTTPError", reason |-> msg]]
      [] fo.kind = "read_error" ->
           [ok |-> FALSE, exc |-> [cls |-> "OSError", reason |-> {"cause"}]]
      [] OTHER -> [ok |-> TRUE, body |-> fo.body]

(***************************************************************************)
(* Cache files.                                                            *)
(***************************************************************************)
\* with open(path, 'w') as f: <dump>.  "open_fails": nothing is touched;
\* "partial": open() truncated the file and the dump stopped half way.
WriteOutcomes == {"ok", "open_fails", "partial"}

\* Faulty variant of WriteCache: the cache holds one file, and writing a key
\* clears the directory of the others.
WriteCacheOneSlot(files, cache_key, val, outcome) ==
    CASE outcome = "ok" ->
           (cache_key :> [text |-> FullText(val), mtime |-> now])
      [] outcome = "partial" ->
           (cache_key :> [text |-> PrefixText(val), mtime |-> now])
      [] OTHER -> files

\* Faulty variant of WriteCache: a write that stopped half way is cleaned up
\* by removing the file.
WriteCacheRemovesTorn(files, cache_key, val, outcome) ==
    CASE outcome = "ok" ->
           DictSet(files, cache_key, [text |-> FullText(val), mtime |-> now])
      [] outcome = "partial" ->
           [k \in DOMAIN files \ {cache_key} |-> files[k]]
      [] OTHER -> files

WriteCache(files, cache_key, val, outcome) ==
    CASE outcome = "ok" ->
           DictSet(files, cache_key, [text |-> FullText(val), mtime |-> now])
      [] outcome = "partial" ->
           DictSet(files, cache_key, [text |-> PrefixText(val), mtime |-> now])
      [] OTHER -> files

\* Faulty variant of ReadCache: reading the file sets its modification time.
ReadCacheTouches(files, cache_key) ==
    [files EXCEPT ![cache_key] = [@ EXCEPT !.mtime = now]]

\* with open(cache_file_path, 'r') as f: what a read leaves of the files
ReadCache(files, cache_key) == files

(***************************************************************************)
(* The facade calls.  last records one call: its inputs, what it found     *)
(* (pre_entry, pre_data, pre_file, pre_stats_file: the url's stats entry,   *)
(* the tracker's _data, the key's cache file and the stats file before the *)
(* call; fresh: the freshness                                              *)
(* test's verdict), the steps it                                           *)
(* took (read, fetch, write, save1, save2: "none" when the step was not    *)
(* taken; gets: GET requests issued) and its result.                       *)
(***************************************************************************)
NoCall == [path |-> "none"]
NoParse == [none |-> TRUE]
NoFetch == [kind |-> "none", status |-> 0, body |-> Garbage]
NoFile == [exists |-> FALSE]
FileOf(files, k) ==
    IF k \in DOMAIN files
    THEN [exists |-> TRUE, text |-> files[k].text, mtime |-> files[k].mtime]
    ELSE NoFile

NoHist == [u \in URLs |-> [calls |-> 0, gets |-> 0, fetched |-> 0]]
\* there is one process only
NoOther == [pid |-> 0]

\* The call's record so far
Begin(url, cache_key, force_refresh, save1) ==
    [path |-> "fetch", url |-> url, cache_key |-> cache_key,
     force_refresh |-> force_refresh, at |-> now,
     pre_entry |-> DictGet(_data.m, url, NewEntry),
     pre_data |-> _data,
     pre_file |-> FileOf(cache_files, cache_key),
     pre_stats_file |-> stats_file,
     fresh |-> FALSE, read |-> "none", fetch |-> NoFetch, write |-> "none",
     save1 |-> IF _data.kind = "map" THEN save1 ELSE "none", save2 |-> "none",
     gets |-> 0, result |-> NoCall]

\* The call ends: everything it changed, and its record
Complete(data, file, files, rec) ==
    /\ _data' = data
    /\ stats_file' = file
    /\ cache_files' = files
    /\ last' = rec
    /\ calls' = IF world.counted THEN calls + 1 ELSE (calls + 1) % MaxCalls
    /\ hist' = IF ~world.counted THEN hist
               ELSE [hist EXCEPT ![rec.url] =
                  [calls |-> @.calls + 1,
                   gets |-> @.gets + rec.gets,
                   fetched |-> @.fetched +
                       IF rec.path = "fetch" /\ rec.result.kind = "returned"
                       THEN 1 ELSE 0]]
    /\ populated' = IF rec.write = "none" THEN populated
                    ELSE DictSet(populated, rec.cache_key,
                           [at |-> now, write |-> rec.write, result |-> rec.result,
                            url |-> rec.url, fetch |-> rec.fetch])
    /\ UNCHANGED <<world, variant, tz, now, started, other, parse_vars>>

\* Faulty variants of TryCache: the flag inverted; the flag ignored.
TryCacheInverted(force_refresh, files, cache_key) ==
    force_refresh /\ cache_key \in DOMAIN files
TryCacheIgnoresForce(force_refresh, files, cache_key) ==
    cache_key \in DOMAIN files

\* if not force_refresh and os.path.exists(cache_file_path)
TryCache(force_refresh, files, cache_key) ==
    ~force_refresh /\ cache_key \in DOMAIN files

\* fpl_utils.py lines 95-119: the remote fetch of fetch_url_cached
JsonFetchPath(url, cache_key, s1, rec) ==
    \E fo \in FetchOutcomes :
      LET got == OpenAndRead(fo, {"code", "phrase"})
          \* data = json.loads(data_bytes.decode('utf-8'))
          dec == IF got.ok THEN loads_decoded(got.body) ELSE [ok |-> FALSE]
          rec1 == [rec EXCEPT !.fetch = fo, !.gets = 1]
      IN  IF ~got.ok
          THEN Complete(s1.data, s1.file, cache_files,
                 [rec1 EXCEPT !.result =
                    Raised(Handler(ExceptClausesJson, got.exc), got.exc)])
          ELSE IF ~dec.ok
          THEN Complete(s1.data, s1.file, cache_files,
                 [rec1 EXCEPT !.result =
                    Raised(Handler(ExceptClausesJson,
                                   [cls |-> dec.cls, reason |-> {"detail"}]),
                           [cls |-> dec.cls, reason |-> {"detail"}])])
          ELSE \E w \in world.writes :
                 LET files == WriteCache(cache_files, cache_key, dec.val, w)
                     rec2 == [rec1 EXCEPT !.write = w]
                     oserr == [cls |-> "OSError", reason |-> {"cause"}]
                 IN  IF w # "ok"
                     \* open() or json.dump raises inside the try block
                     THEN Complete(s1.data, s1.file, files,
                            [rec2 EXCEPT !.result =
                               Raised(Handler(ExceptClausesJson, oserr), oserr)])
                     ELSE \E save2 \in world.saves :
                            LET s2 == TryStats(increment_api_fetch(
                                          s1.data, s1.file, url, save2))
                            IN  Complete(s2.data, s2.file, files,
                                  [rec2 EXCEPT
                                     !.save2 = IF s1.data.kind = "map"
                                               THEN save2 ELSE "none",
                                     !.result = Returned(dec.val)])

\* FPLUtils.fetch_url_cached
fetch_url_cached(url, cache_key, force_refresh) ==
    /\ variant = "json"
    /\ calls < MaxCalls
    /\ \E save1 \in world.saves :
         LET s1 == TryStats(increment_request(_data, stats_file, url, save1))
             rec == Begin(url, cache_key, force_refresh, save1)
         IN  IF s1.propagated
             THEN Complete(s1.data, s1.file, cache_files,
                    [rec EXCEPT !.result =
                       [kind |-> "raised", tag |-> "AttributeError", facts |-> {}]])
             ELSE IF TryCache(force_refresh, cache_files, cache_key)
             THEN IF JsonFresh(cache_files[cache_key].mtime)
                  THEN \E readable \in BOOLEAN :
                         LET rd == IF readable
                                   THEN json_loads(cache_files[cache_key].text)
                                   ELSE [ok |-> FALSE, cls |-> "OSError"]
                             rec1 == [rec EXCEPT !.fresh = TRUE]
                         IN  IF rd.ok
                             THEN Complete(s1.data, s1.file,
                                    ReadCache(cache_files, cache_key),
                                    [rec1 EXCEPT !.path = "hit", !.read = "ok",
                                                 !.result = Returned(rd.val)])
                             ELSE JsonFetchPath(url, cache_key, s1,
                                    [rec1 EXCEPT !.read = "failed"])
                  ELSE JsonFetchPath(url, cache_key, s1, rec)
             ELSE JsonFetchPath(url, cache_key, s1, rec)

\* Faulty variant of HtmlFetchPath: when the request fails and the key has a
\* cache file that can be read, the file's document is parsed and returned.
HtmlFetchPathStaleFallback(url, cache_key, s1, rec) ==
    \E fo \in FetchOutcomes :
      LET got == OpenAndRead(fo, {"code"})
          rec1 == [rec EXCEPT !.fetch = fo, !.gets = 1]
          kept == IF cache_key \in DOMAIN cache_files
                  THEN html_read(cache_files[cache_key].text)
                  ELSE [ok |-> FALSE]
      IN  IF ~got.ok /\ kept.ok
          THEN Complete(s1.data, s1.file, cache_files,
                 [rec1 EXCEPT !.result =
                    Returned(_parse_prices_html(kept.val, now))])
          ELSE IF ~got.ok
          THEN Complete(s1.data, s1.file, cache_files,
                 [rec1 EXCEPT !.result =
                    Raised(Handler(ExceptClausesHtml, got.exc), got.exc)])
          ELSE \E w \in world.writes, save2 \in world.saves :
                 LET html == got.body.val
                     files == WriteCache(cache_files, cache_key, html, w)
                     s2 == TryStats(increment_api_fetch(
                               s1.data, s1.file, url, save2))
                 IN  Complete(s2.data, s2.file, files,
                       [rec1 EXCEPT
                          !.write = w,
                          !.save2 = IF s1.data.kind = "map" THEN save2 ELSE "none",
                          !.result = Returned(_parse_prices_html(html, now))])

\* livefpl_utils.py lines 141-167: the remote fetch of fetch_prices_cached
HtmlFetchPath(url, cache_key, s1, rec) ==
    \E fo \in FetchOutcomes :
      LET got == OpenAndRead(fo, {"code"})
          rec1 == [rec EXCEPT !.fetch = fo, !.gets = 1]
      IN  IF ~got.ok
          THEN Complete(s1.data, s1.file, cache_files,
                 [rec1 EXCEPT !.result =
                    Raised(Handler(ExceptClausesHtml, got.exc), got.exc)])
          ELSE \E w \in world.writes, save2 \in world.saves :
                 \* html = html_bytes.decode('utf-8', errors='ignore')
                 LET html == got.body.val
                     \* try: ... f.write(html) / except Exception: pass
                     files == WriteCache(cache_files, cache_key, html, w)
                     s2 == TryStats(increment_api_fetch(
                               s1.data, s1.file, url, save2))
                 IN  Complete(s2.data, s2.file, files,
                       [rec1 EXCEPT
                          !.write = w,
                          !.save2 = IF s1.data.kind = "map" THEN save2 ELSE "none",
                          !.result = Returned(_parse_prices_html(html, now))])

\* LiveFPLUtils.fetch_prices_cached
fetch_prices_cached(url, cache_key, force_refresh) ==
    /\ variant = "html"
    /\ calls < MaxCalls
    /\ \E save1 \in world.saves :
         LET s1 == TryStats(increment_request(_data, stats_file, url, save1))
             rec == Begin(url, cache_key, force_refresh, save1)
         IN  IF s1.propagated
             THEN Complete(s1.data, s1.file, cache_files,
                    [rec EXCEPT !.result =
                       [kind |-> "raised", tag |-> "AttributeError", facts |-> {}]])
             ELSE IF TryCache(force_refresh, cache_files, cache_key)
             THEN IF HtmlFresh(cache_files[cache_key].mtime)
                  THEN \E readable \in BOOLEAN :
                         LET rd == IF readable
                                   THEN html_read(cache_files[cache_key].text)
                                   ELSE [ok |-> FALSE, cls |-> "OSError"]
                             rec1 == [rec EXCEPT !.fresh = TRUE]
                         IN  IF rd.ok
                             THEN Complete(s1.data, s1.file,
                                    ReadCache(cache_files, cache_key),
                                    [rec1 EXCEPT
                                       !.path = "hit", !.read = "ok",
                                       !.result = Returned(
                                           _parse_prices_html(rd.val, now))])
                             ELSE HtmlFetchPath(url, cache_key, s1,
                                    [rec1 EXCEPT !.read = "failed"])
                  ELSE HtmlFetchPath(url, cache_key, s1, rec)
             ELSE HtmlFetchPath(url, cache_key, s1, rec)

(***************************************************************************)
(* The environment: the clock, and a new process on the same directory.    *)
(***************************************************************************)
Tick ==
    /\ now < MaxTime * TickSeconds
    /\ now' = now + world.step
    /\ last' = NoCall
    /\ UNCHANGED <<world, variant, tz, cache_files, stats_file, _data, started,
                   hist, other, calls, populated, parse_vars>>

\* FPLUtils.__init__ / LiveFPLUtils.__init__: self.stats = StatsTracker(...)
Restart ==
    /\ calls < MaxCalls
    /\ \E readable \in BOOLEAN :
         /\ _data' = _load(stats_file, readable)
         /\ started' = [found |-> stats_file.kind, readable |-> readable]
    /\ hist' = NoHist
    /\ last' = NoCall
    /\ UNCHANGED <<world, variant, tz, now, cache_files, stats_file, other, calls,
                   populated, parse_vars>>

\* The files a process may find when it starts
MapFile == [kind |-> "map", m |-> ("u1" :> [requests |-> 2, api_fetches |-> 1])]
InitStatsFiles == {MissingFile, CorruptFile, NonMapFile, MapFile}

InitCacheFiles ==
    IF variant = "json"
    THEN {EmptyDict,
          ("k1" :> [text |-> FullText([a |-> 1]), mtime |-> 0]),
          ("k1" :> [text |-> Garbage, mtime |-> 0])}
    ELSE {EmptyDict,
          ("k1" :> [text |-> FullText(Doc1), mtime |-> 0]),
          ("k1" :> [text |-> Garbage, mtime |-> 0])}

Init ==
    /\ world = [urls |-> {"u1"}, keys |-> {"k1"}, saves |-> {"ok"},
                 writes |-> WriteOutcomes, fetches |-> FetchKinds,
                 bodies |-> [json |-> JsonBodies, html |-> HtmlBodies],
                 step |-> TickSeconds,
                force |-> BOOLEAN, counted |-> TRUE]
    /\ variant \in {"json", "html"}
    /\ tz \in TzOffsets
    /\ now = 0
    /\ cache_files \in InitCacheFiles
    /\ stats_file \in {MissingFile, MapFile}
    /\ _data = _load(stats_file, TRUE)
    /\ started = [found |-> stats_file.kind, readable |-> TRUE]
    /\ hist = NoHist
    /\ other = NoOther
    /\ calls = 0
    /\ populated = EmptyDict
    /\ last = NoCall
    /\ html_in = <<>>
    /\ parsed = NoParse
    /\ parse_log = <<>>

Call ==
    \E url \in world.urls, cache_key \in world.keys,
       force_refresh \in world.force :
       \/ fetch_url_cached(url, cache_key, force_refresh)
       \/ fetch_prices_cached(url, cache_key, force_refresh)

Next == Call \/ Tick

Spec == Init /\ [][Next]_vars


(***************************************************************************)
(* SpecStats: the stats sidecar under every load and save outcome, with    *)
(* processes that start over on the same directory; the machine is on UTC  *)
(* and the remote either answers or cannot be reached.                     *)
(***************************************************************************)
InitStats ==
    /\ world = [urls |-> {"u1"}, keys |-> {"k1"}, saves |-> SaveOutcomes,
                writes |-> {"ok", "open_fails"},
                fetches |-> {"resp", "url_error"},
                bodies |-> [json |-> {FullText([a |-> 1]), NotUtf8},
                            html |-> {FullText(Doc1)}],
                step |-> MaxTime * TickSeconds,
                force |-> BOOLEAN, counted |-> TRUE]
    /\ variant \in {"json", "html"}
    /\ tz = 0
    /\ now = 0
    /\ cache_files \in {f \in InitCacheFiles :
                          \A k \in DOMAIN f : f[k].text.kind = "full"}
    /\ stats_file \in InitStatsFiles
    /\ \E readable \in BOOLEAN :
         /\ _data = _load(stats_file, readable)
         /\ started = [found |-> stats_file.kind, readable |-> readable]
    /\ hist = NoHist
    /\ other = NoOther
    /\ calls = 0
    /\ populated = EmptyDict
    /\ last = NoCall
    /\ html_in = <<>>
    /\ parsed = NoParse
    /\ parse_log = <<>>

NextStats == Call \/ Tick \/ Restart

SpecStats == InitStats /\ [][NextStats]_vars


(***************************************************************************)
(* SpecTwo: two processes on one cache directory.  Each built its utils    *)
(* object, and so loaded the stats file, before either made a call; the    *)
(* operating system runs one of them at a time and switches between calls. *)
(***************************************************************************)
\* the operating system suspends the running process and resumes the other
Yield ==
    /\ other.pid # 0
    /\ other' = [pid |-> 3 - other.pid, _data |-> _data, started |-> started,
                 hist |-> hist]
    /\ _data' = other._data
    /\ started' = other.started
    /\ hist' = other.hist
    /\ last' = NoCall
    /\ UNCHANGED <<world, variant, tz, now, cache_files, stats_file, calls,
                   populated, parse_vars>>

InitTwo ==
    /\ world = [urls |-> {"u1", "u2"}, keys |-> {"k1"},
                saves |-> {"ok", "open_fails"},
                writes |-> {"ok"}, fetches |-> {"resp", "url_error"},
                bodies |-> [json |-> {FullText([a |-> 1])},
                            html |-> {FullText(Doc1)}],
                step |-> MaxTime * TickSeconds,
                force |-> BOOLEAN, counted |-> TRUE]
    /\ variant \in {"json", "html"}
    /\ tz = 0
    /\ now = 0
    /\ cache_files = EmptyDict
    /\ stats_file \in {MissingFile, MapFile}
    /\ _data = _load(stats_file, TRUE)
    /\ started = [found |-> stats_file.kind, readable |-> TRUE]
    /\ hist = NoHist
    /\ other = [pid |-> 2, _data |-> _load(stats_file, TRUE),
                started |-> [found |-> stats_file.kind, readable |-> TRUE],
                hist |-> NoHist]
    /\ calls = 0
    /\ populated = EmptyDict
    /\ last = NoCall
    /\ html_in = <<>>
    /\ parsed = NoParse
    /\ parse_log = <<>>

NextTwo == Call \/ Tick \/ Yield

SpecTwo == InitTwo /\ [][NextTwo]_vars


(***************************************************************************)
(* SpecParse: _parse_prices_html on every document of up to MaxTags tags   *)
(* drawn from TagPool, at any instant of the clock.                        *)
(***************************************************************************)
Tag(e, a, g) == [elem |-> e, attrs |-> a, gap |-> g, cr |-> 0]
TagPool ==
    {Tag("div", <<Attr("data-id", "10"), Attr("data-now", "5.2"),
                  Attr("data-tonight", "-1.1")>>, 0),
     Tag("div", <<Attr("data-id", "10"), Attr("data-now", "9.9")>>, 0),
     Tag("div", <<Attr("data-now", "N/A"), Attr("data-id", "010"),
                  Attr("data-tonight", "5.2")>>, 0),
     Tag("div", <<Attr("data-id", "7"), Attr("data-now", "5.20")>>, 0),
     Tag("DIV", <<Attr("DATA-ID", "7"), Attr("data-now", ""),
                  Attr("data-tonight", "9.9")>>, 0),
     Tag("div", <<Attr("data-now", "9.9")>>, 0),
     Tag("span", <<Attr("data-now", "1e1"), Attr("data-id", "7")>>, 0),
     Tag("span", <<Attr("data-id", "12ab")>>, WindowCells),
     Tag("span", <<Attr("data-id", "10"), Attr("data-tonight", "-1.1")>>, 0),
     Tag("span", <<Attr("data-id", "7"), Attr("data-tonight", "N/A"),
                   Attr("data-now", "5.2")>>, 0)}

RECURSIVE DocsOfLen(_)
DocsOfLen(n) ==
    IF n = 0 THEN {<<>>}
    ELSE {<<t>> \o d : t \in TagPool, d \in DocsOfLen(n - 1)}
Docs == UNION {DocsOfLen(n) : n \in 0..MaxTags}

\* a caller hands html_in to the parser
ParseCall ==
    /\ parsed' = _parse_prices_html(html_in, now)
    /\ parse_log' = (IF parse_log = <<>> THEN <<>>
                     ELSE <<parse_log[Len(parse_log)]>>)
                    \o <<[at |-> now, out |-> _parse_prices_html(html_in, now)]>>
    /\ UNCHANGED <<facade_vars, html_in>>

\* the clock, for the parser's callers
ParseTick ==
    /\ now < MaxTime * TickSeconds
    /\ now' = now + world.step
    /\ UNCHANGED <<world, variant, tz, cache_files, stats_file, _data, started,
                   hist, other, calls, populated, last, parse_vars>>

InitParse ==
    /\ world = [urls |-> {}, keys |-> {}, saves |-> {}, writes |-> {},
                fetches |-> {}, bodies |-> [json |-> {}, html |-> {}],
                step |-> 3 * TickSeconds,
                force |-> BOOLEAN, counted |-> TRUE]
    /\ variant = "html"
    /\ tz = 0
    /\ now = 0
    /\ cache_files = EmptyDict
    /\ stats_file = MissingFile
    /\ _data = EmptyStats
    /\ started = [found |-> "missing", readable |-> TRUE]
    /\ hist = NoHist
    /\ other = NoOther
    /\ calls = 0
    /\ populated = EmptyDict
    /\ last = NoCall
    /\ html_in \in Docs
    /\ parsed = NoParse
    /\ parse_log = <<>>

NextParse == ParseCall \/ ParseTick

SpecParse == InitParse /\ [][NextParse]_vars

(***************************************************************************)
(* SpecKeys: one process whose callers use two urls and two cache keys, in *)
(* any pairing and without forcing a refresh; the machine is on UTC, the   *)
(* remote answers with one of two payloads or cannot be reached, and a     *)
(* save of the stats file may fail to open it.                             *)
(***************************************************************************)
InitKeys ==
    /\ world = [urls |-> URLs, keys |-> Keys,
                saves |-> {"ok", "open_fails"},
                writes |-> {"ok"},
                fetches |-> {"resp", "url_error"},
                bodies |-> [json |-> {FullText(v) : v \in JsonVals},
                            html |-> {FullText(Doc1), FullText(Doc2)}],
                step |-> MaxTime * TickSeconds,
                force |-> {FALSE}, counted |-> TRUE]
    /\ variant \in {"json", "html"}
    /\ tz = 0
    /\ now = 0
    /\ cache_files \in
          {EmptyDict,
           ("k2" :> [text |-> IF variant = "json" THEN FullText([a |-> 1])
                              ELSE FullText(Doc1),
                     mtime |-> 0])}
    /\ stats_file \in {MissingFile, MapFile}
    /\ _data = _load(stats_file, TRUE)
    /\ started = [found |-> stats_file.kind, readable |-> TRUE]
    /\ hist = NoHist
    /\ other = NoOther
    /\ calls = 0
    /\ populated = EmptyDict
    /\ last = NoCall
    /\ html_in = <<>>
    /\ parsed = NoParse
    /\ parse_log = <<>>

NextKeys == Call \/ Tick

SpecKeys == InitKeys /\ [][NextKeys]_vars

(***************************************************************************)
(* SpecFresh: a caller that never forces a refresh and never stops         *)
(* calling, while the clock advances to the end of the modelled time.      *)
(* The calls are counted modulo MaxCalls, so that there is no last call    *)
(* and every call is a step that changes the state.  The stats             *)
(* file holds valid JSON that is no object: the tracker's increments raise *)
(* and are swallowed, and the tracker's state stays what it is however     *)
(* many calls are made.                                                    *)
(* Fairness: the clock is not in the program's hands and keeps advancing   *)
(* (WF on Tick); the caller keeps calling.  A call is possible in every    *)
(* state and changes the state, so that weak fairness of Call is that Call *)
(* steps happen again and again, and it is written so.                     *)
(***************************************************************************)
InitFresh ==
    /\ world = [urls |-> {"u1"}, keys |-> {"k1"}, saves |-> {"ok"},
                writes |-> WriteOutcomes, fetches |-> FetchKinds,
                bodies |-> [json |-> {FullText([a |-> 1]), Garbage},
                            html |-> {FullText(Doc1)}],
                step |-> TickSeconds,
                force |-> {FALSE}, counted |-> FALSE]
    /\ variant \in {"json", "html"}
    /\ tz \in TzOffsets
    /\ now = 0
    /\ cache_files \in InitCacheFiles
    /\ stats_file = NonMapFile
    /\ _data = _load(stats_file, TRUE)
    /\ started = [found |-> stats_file.kind, readable |-> TRUE]
    /\ hist = NoHist
    /\ other = NoOther
    /\ calls = 0
    /\ populated = EmptyDict
    /\ last = NoCall
    /\ html_in = <<>>
    /\ parsed = NoParse
    /\ parse_log = <<>>

NextFresh == Call \/ Tick

SpecFresh ==
    InitFresh /\ [][NextFresh]_vars /\ WF_vars(Tick) /\ []<><<Call>>_vars

(***************************************************************************)
(* What the claims speak of.                                               *)
(***************************************************************************)
Called == last.path # "none"

\* open() and the decoder accept the file's content
Decodable(text) ==
    IF variant = "json" THEN text.kind = "full"
    ELSE text.kind \in {"full", "prefix"}

\* the payload a call returns from a cache file with this text
CachedPayload(text) ==
    IF variant = "json" THEN text.val
    ELSE _parse_prices_html(html_read(text).val, last.at)

\* the freshness test of the running variant
CodeFresh(mtime) == IF variant = "json" THEN JsonFresh(mtime) ELSE HtmlFresh(mtime)

\* the remote answered 200 with a body the variant can decode
FetchOk(fo) ==
    /\ fo.kind = "resp"
    /\ fo.status = 200
    /\ variant = "json" => fo.body.kind = "full"

\* the payload a call returns for this answer of the remote
FetchedPayload(fo) ==
    IF variant = "json" THEN fo.body.val
    ELSE _parse_prices_html(fo.body.val, last.at)

WriteFailed == last.write \in {"open_fails", "partial"}

\* the url's record in the tracker's memory, and in the stats file
MemEntry(u) == DictGet(_data.m, u, NewEntry)
DiskEntry(u) == DictGet(stats_file.m, u, NewEntry)

\* the call found a readable, decodable file that the variant's test calls fresh
FreshReadable ==
    /\ Called
    /\ last.pre_file.exists
    /\ CodeFresh(last.pre_file.mtime)
    /\ Decodable(last.pre_file.text)
    /\ last.read # "failed"

(***************************************************************************)
(* C1: when force_refresh is false and the cache file exists, is fresh and *)
(* is readable, the call returns the cached payload, issues no GET and     *)
(* leaves the url's api_fetches as it was.                                 *)
(***************************************************************************)
C1_CacheHit ==
    (FreshReadable /\ ~last.force_refresh) =>
        /\ last.result = Returned(CachedPayload(last.pre_file.text))
        /\ last.gets = 0
        /\ last.fetch = NoFetch
        /\ MemEntry(last.url).api_fetches = last.pre_entry.api_fetches
        /\ MemEntry(last.url).requests = last.pre_entry.requests + 1

C1_Witness ==
    /\ FreshReadable
    /\ ~last.force_refresh
    /\ last.path = "hit"
    /\ last.pre_entry.api_fetches = 1

(***************************************************************************)
(* C2, as claimed: a call with force_refresh=true always performs a remote *)
(* fetch, whatever the cache entry is, and whenever the fetch succeeds the *)
(* cache file holds the newly fetched payload afterwards.                  *)
(***************************************************************************)
Overwritten ==
    /\ last.cache_key \in DOMAIN cache_files
    /\ cache_files[last.cache_key] =
          [text |-> FullText(last.fetch.body.val), mtime |-> last.at]

C2_AsClaimed ==
    (Called /\ last.force_refresh) =>
        /\ last.gets = 1
        /\ last.path = "fetch"
        /\ FetchOk(last.fetch) => Overwritten

(***************************************************************************)
(* C2, amended: a call with force_refresh=true always performs a remote    *)
(* fetch, whatever the cache entry is, and whenever the fetch succeeds and *)
(* the write of the cache file does not fail, the cache file holds the     *)
(* newly fetched payload afterwards.                                       *)
(***************************************************************************)
C2_ForceRefresh ==
    (Called /\ last.force_refresh) =>
        /\ last.gets = 1
        /\ last.path = "fetch"
        /\ last.fetch # NoFetch
        /\ (FetchOk(last.fetch) /\ ~WriteFailed) => Overwritten

C2_Witness ==
    /\ FreshReadable
    /\ last.force_refresh
    /\ FetchOk(last.fetch)
    /\ last.write = "ok"
    /\ last.pre_file.text # FullText(last.fetch.body.val)

(***************************************************************************)
(* C3, as claimed: JSON variant, expiry window of N days: a cache file     *)
(* whose age (now minus modification time) is less than N days is served   *)
(* from cache, one whose age is more than N days is refetched.             *)
(***************************************************************************)
Age == last.at - last.pre_file.mtime

C3_Pre ==
    /\ Called
    /\ variant = "json"
    /\ ~last.force_refresh
    /\ last.pre_file.exists
    /\ Decodable(last.pre_file.text)
    /\ last.read # "failed"

C3_AsClaimed ==
    C3_Pre =>
        /\ Age < cache_expiry_days * SecondsPerDay =>
              last.path = "hit" /\ last.gets = 0
        /\ Age > cache_expiry_days * SecondsPerDay =>
              last.path = "fetch" /\ last.gets = 1

(***************************************************************************)
(* C3, amended: JSON variant, expiry window of N days: a cache file is     *)
(* served from cache exactly when fewer than N local midnights lie between *)
(* its modification time and now (the difference of the two local calendar *)
(* dates is less than N), and is refetched otherwise; so a file older than *)
(* N days is always refetched, and a file younger than N days is refetched *)
(* too when N midnights have passed since it was written.                  *)
(***************************************************************************)
\* the local midnights in (from, to], on the clock's ticks
Midnights(from, to) ==
    Cardinality({k \in 0..(MaxTime + 1) :
                   /\ from < k * TickSeconds
                   /\ k * TickSeconds <= to
                   /\ (k * TickSeconds + tz) % SecondsPerDay = 0})

C3_CalendarDays ==
    C3_Pre =>
        /\ Midnights(last.pre_file.mtime, last.at) < cache_expiry_days =>
              last.path = "hit" /\ last.gets = 0
        /\ Midnights(last.pre_file.mtime, last.at) >= cache_expiry_days =>
              last.path = "fetch" /\ last.gets = 1
        /\ Age > cache_expiry_days * SecondsPerDay =>
              last.path = "fetch" /\ last.gets = 1

C3_Witness ==
    /\ C3_Pre
    /\ Age < cache_expiry_days * SecondsPerDay
    /\ Midnights(last.pre_file.mtime, last.at) = 1
    /\ last.path = "fetch"

(***************************************************************************)
(* C4: HTML variant, expiry window of H hours: the cache file is served    *)
(* from cache if and only if its true age in seconds (current instant      *)
(* minus modification instant) is less than H*3600, whatever the local     *)
(* zone's offset from UTC.                                                 *)
(***************************************************************************)
C4_Pre ==
    /\ Called
    /\ variant = "html"
    /\ ~last.force_refresh
    /\ last.pre_file.exists
    /\ Decodable(last.pre_file.text)
    /\ last.read # "failed"

C4_TrueAge ==
    C4_Pre => (last.path = "hit" <=> Age < cache_expiry_hours * 3600)

(***************************************************************************)
(* C5: when force_refresh is false and the fresh cache file cannot be read *)
(* or decoded, the call raises nothing for that reason, goes on to the     *)
(* remote fetch, and returns the fetched payload if the fetch succeeds.    *)
(***************************************************************************)
C5_CorruptionTolerance ==
    (/\ Called
     /\ ~last.force_refresh
     /\ last.pre_file.exists
     /\ CodeFresh(last.pre_file.mtime)
     /\ (~Decodable(last.pre_file.text) \/ last.read = "failed")) =>
        /\ last.gets = 1
        /\ FetchOk(last.fetch) => last.result = Returned(FetchedPayload(last.fetch))

(***************************************************************************)
(* C7: if the remote fetch succeeds but writing the cache file fails, the  *)
(* failure is swallowed and the call still returns the fetched payload.    *)
(***************************************************************************)
C7_WriteFailureSwallowed ==
    (Called /\ FetchOk(last.fetch) /\ WriteFailed) =>
        last.result = Returned(FetchedPayload(last.fetch))

(***************************************************************************)
(* C8: an HTTP-level failure (a status other than 200, found by the status *)
(* check or raised by the HTTP library) is raised as an API error, not as  *)
(* a transport failure, with the status code and the reason phrase in the  *)
(* message.                                                                *)
(***************************************************************************)
HttpFailure(fo) ==
    \/ fo.kind = "http_error"
    \/ fo.kind = "resp" /\ fo.status # 200

C8_HttpFailureIsApiError ==
    (Called /\ HttpFailure(last.fetch)) =>
        /\ last.result.kind = "raised"
        /\ last.result.tag = "API Error"
        /\ {"code", "phrase"} \subseteq last.result.facts


(***************************************************************************)
(* C6, as claimed: in a process that started with no stats file, after n   *)
(* facade calls for a url of which k were actual remote fetches, the url's *)
(* record shows requests == n and api_fetches == k, in memory and on disk. *)
(* k is read either way: the calls that issued a GET, or the calls that    *)
(* fetched a payload.                                                      *)
(***************************************************************************)
C6_AsClaimed ==
    (started.found = "missing") =>
        \A u \in URLs :
           /\ MemEntry(u).requests = hist[u].calls
           /\ MemEntry(u).api_fetches \in {hist[u].gets, hist[u].fetched}
           /\ DiskEntry(u) = MemEntry(u)

(***************************************************************************)
(* C6, amended: in a process that started with no stats file, after n      *)
(* facade calls for a url, the url's record in memory shows requests == n  *)
(* and api_fetches == k, k being the number of those calls that returned a *)
(* freshly fetched payload (a call whose fetch failed, or, in the JSON     *)
(* variant, whose cache write failed, is not counted); the stats file      *)
(* holds the same records after every call whose last save succeeded.      *)
(***************************************************************************)
LastSave == IF last.save2 # "none" THEN last.save2 ELSE last.save1

C6_StatsCounts ==
    (started.found = "missing") =>
        /\ \A u \in URLs :
              /\ MemEntry(u).requests = hist[u].calls
              /\ MemEntry(u).api_fetches = hist[u].fetched
        /\ (Called /\ LastSave = "ok") =>
              stats_file = [kind |-> "map", m |-> _data.m]

C6_Witness ==
    /\ started.found = "missing"
    /\ hist["u1"].calls = 2
    /\ hist["u1"].gets = 2
    /\ hist["u1"].fetched = 1
    /\ Called
    /\ LastSave = "ok"

(***************************************************************************)
(* C9: a failure to load the stats file (corrupt or unreadable) or to save *)
(* it never makes a facade call raise: a call raises only when its fetch   *)
(* or its cache write failed, and what it returns is decided by the cache  *)
(* file and the remote alone; after a load failure the tracker counts from *)
(* an empty mapping, and a save that cannot open the file leaves the file  *)
(* as it was while the count in memory goes on.                            *)
(***************************************************************************)
LoadFailed ==
    \/ started.found = "corrupt"
    \/ started.found # "missing" /\ ~started.readable

FetchTags ==
    {"Network Error", "API Error", "Data Parsing Error", "An unexpected error"}

C9_StatsFailuresSwallowed ==
    /\ LoadFailed =>
          /\ _data.kind = "map"
          /\ \A u \in URLs :
                /\ MemEntry(u).requests = hist[u].calls
                /\ MemEntry(u).api_fetches = hist[u].fetched
    /\ Called =>
          /\ last.result.kind = "raised" =>
                /\ last.gets = 1
                /\ ~FetchOk(last.fetch) \/ WriteFailed
                /\ last.result.tag \in FetchTags
          /\ (FreshReadable /\ ~last.force_refresh) =>
                last.result = Returned(CachedPayload(last.pre_file.text))
          /\ (last.path = "fetch" /\ last.result.kind = "returned") =>
                last.result = Returned(FetchedPayload(last.fetch))
          /\ (last.save1 = "open_fails" /\ last.save2 \in {"none", "open_fails"}) =>
                /\ stats_file = last.pre_stats_file
                /\ MemEntry(last.url).requests = last.pre_entry.requests + 1

C9_Witness ==
    /\ LoadFailed
    /\ Called
    /\ last.save1 = "open_fails"
    /\ last.save2 = "open_fails"
    /\ last.result.kind = "returned"
    /\ MemEntry(last.url) = [requests |-> 2, api_fetches |-> 1]
    /\ stats_file.kind = "corrupt"

(***************************************************************************)
(* C10: the players sequence _parse_prices_html returns holds at most one  *)
(* record per id; the record kept for an id is the one built from the      *)
(* first match for that id; and the records stand in the order in which    *)
(* their ids were first met.                                               *)
(***************************************************************************)
\* the place of the first match for id in the matches, in encounter order
FirstMatch(matches, id) == Min({i \in 1..Len(matches) : matches[i].id = id})

C10_DedupFirstWins ==
    parsed # NoParse =>
        LET matches == ScannedPlayers(html_in)
            players == parsed.players
        IN  /\ \A i, j \in 1..Len(players) :
                  players[i].id = players[j].id => i = j
            /\ {players[i].id : i \in 1..Len(players)} =
                  {matches[i].id : i \in 1..Len(matches)}
            /\ \A i \in 1..Len(players) :
                  players[i] = matches[FirstMatch(matches, players[i].id)]
            /\ \A i, j \in 1..Len(players) :
                  i < j => FirstMatch(matches, players[i].id)
                              < FirstMatch(matches, players[j].id)

\* two tags with the same id and different data-now values, then another id
C10_Witness ==
    /\ parsed # NoParse
    /\ Len(html_in) = 3
    /\ LET matches == ScannedPlayers(html_in)
       IN  /\ Len(matches) = 3
           /\ matches[1].id = matches[2].id
           /\ matches[1].pct_now # matches[2].pct_now
           /\ matches[3].id # matches[1].id
    /\ Len(parsed.players) = 2

(***************************************************************************)
(* C11: in both strategies a data-now or data-tonight value that fails the *)
(* numeric coercion makes only that field of the record None: the parser   *)
(* returns, and against the same document with the failing values of that  *)
(* attribute replaced by a number, it emits the same records with the same *)
(* ids in the same order, the other field of every record is the same, and *)
(* the field itself differs only where the failing value stood, where it   *)
(* is None.                                                                *)
(***************************************************************************)
\* the value pattern matches the text and float() raises on it
FailsCoercion(text) == text # "" /\ Float(text) = None

\* the document with the failing values of the attribute replaced by "9.9"
Repaired(html, name) ==
    [i \in 1..Len(html) |->
       [html[i] EXCEPT !.attrs =
          [j \in 1..Len(html[i].attrs) |->
             IF html[i].attrs[j].name = name /\ FailsCoercion(html[i].attrs[j].val)
             THEN Attr(name, "9.9") ELSE html[i].attrs[j]]]]

C11_Fields == {[attr |-> "data-now", field |-> "pct_now", other |-> "pct_tonight"],
               [attr |-> "data-tonight", field |-> "pct_tonight", other |-> "pct_now"]}

C11_CoercionRobust ==
    parsed # NoParse =>
        \A f \in C11_Fields :
           LET players == parsed.players
               repaired == _parse_prices_html(Repaired(html_in, f.attr),
                                              parsed.fetched_at).players
           IN  /\ Len(players) = Len(repaired)
               /\ \A i \in 1..Len(players) :
                     /\ players[i].id = repaired[i].id
                     /\ players[i][f.other] = repaired[i][f.other]
                     /\ players[i][f.field] # repaired[i][f.field] =>
                           /\ players[i][f.field] = None
                           /\ repaired[i][f.field] = Float("9.9")

\* the fallback strategy: a record whose data-tonight failed the coercion and
\* whose data-now did not, followed by a record of another id
C11_Witness ==
    /\ parsed # NoParse
    /\ PrimaryScan(html_in) = <<>>
    /\ Len(parsed.players) >= 2
    /\ parsed.players[1].pct_tonight = None
    /\ parsed.players[1].pct_now = Float("5.2")
    /\ parsed.players[2].id # parsed.players[1].id
    /\ _parse_prices_html(Repaired(html_in, "data-tonight"),
                          parsed.fetched_at).players[1].pct_tonight = Float("9.9")

SamePayload(r1, r2) ==
    /\ r1.kind = "returned"
    /\ r2.kind = "returned"
    /\ IF variant = "json" THEN r1.value = r2.value
       ELSE r1.value.players = r2.value.players

\* the call before this one that populated the key's cache file
Populating == populated[last.cache_key]

\* this call came after a call that fetched and returned a payload for the key
AfterPopulating ==
    /\ Called
    /\ last.cache_key \in DOMAIN populated
    /\ Populating.at <= last.at
    /\ Populating.result.kind = "returned"
    /\ last.write = "none"

C13_RoundTrip ==
    /\ (Called /\ last.path = "fetch" /\ last.write = "ok") =>
          /\ last.result.kind = "returned"
          /\ Overwritten
          /\ cache_files[last.cache_key].text.val =
                IF variant = "json" THEN last.result.value ELSE last.fetch.body.val
    /\ (AfterPopulating /\ ~last.force_refresh /\ last.path = "hit"
          /\ Populating.write = "ok") =>
          /\ last.pre_file.mtime = Populating.at
          /\ SamePayload(last.result, Populating.result)

(***************************************************************************)
(* C14: JSON variant: when the remote answers 200 with a body that is not  *)
(* valid JSON, fetch_url_cached raises a failure classified as a decode    *)
(* (data parsing) failure with the parse error detail in its message, the  *)
(* cache file for cache_key is left exactly as it was before the call, and *)
(* api_fetches is not incremented.                                         *)
(***************************************************************************)
C14_DecodeFailure ==
    (/\ Called
     /\ variant = "json"
     /\ last.fetch.kind = "resp"
     /\ last.fetch.status = 200
     /\ last.fetch.body.kind # "full") =>
        /\ last.result.kind = "raised"
        /\ last.result.tag = "Data Parsing Error"
        /\ "detail" \in last.result.facts
        /\ FileOf(cache_files, last.cache_key) = last.pre_file
        /\ MemEntry(last.url).api_fetches = last.pre_entry.api_fetches

(***************************************************************************)
(* C15, as claimed: over any sequence of facade calls, the cache file for  *)
(* a key is created only by a successful remote fetch for that key, is     *)
(* overwritten by every later successful fetch for that key, and is never  *)
(* deleted: once it exists it exists in every later state, and cache hits  *)
(* and failed fetches leave its content and modification time unchanged.   *)
(***************************************************************************)
\* this step is a facade call for the key whose remote fetch succeeded
FetchedFor(k) ==
    /\ calls' = calls + 1
    /\ last'.cache_key = k
    /\ last'.path = "fetch"
    /\ FetchOk(last'.fetch)

\* the text a variant writes to the cache file for what it fetched
FetchedText(fo) == FullText(fo.body.val)

C15_AsClaimed ==
    [][\A k \in Keys :
         LET pre == FileOf(cache_files, k)
             post == FileOf(cache_files', k)
         IN  /\ pre.exists => post.exists
             /\ (~pre.exists /\ post.exists) => FetchedFor(k)
             /\ (pre.exists /\ FetchedFor(k)) =>
                   post = [exists |-> TRUE, text |-> FetchedText(last'.fetch),
                           mtime |-> now]
             /\ ~FetchedFor(k) => post = pre]_vars

(***************************************************************************)
(* C15, amended: over any sequence of facade calls, the cache file for a   *)
(* key is created only by a call whose remote fetch for that key           *)
(* succeeded, is overwritten with the new payload by every later           *)
(* successful fetch for that key whose cache write does not fail (a write  *)
(* that cannot open the file leaves it as it was, a write that stops half  *)
(* way leaves a prefix of the new payload), and is never deleted: once it  *)
(* exists it exists in every later state, and cache hits and failed        *)
(* fetches leave its content and modification time unchanged.              *)
(***************************************************************************)
C15_Lifecycle ==
    [][\A k \in Keys :
         LET pre == FileOf(cache_files, k)
             post == FileOf(cache_files', k)
         IN  /\ pre.exists => post.exists
             /\ (~pre.exists /\ post.exists) => FetchedFor(k)
             /\ (FetchedFor(k) /\ last'.write = "ok") =>
                   post = [exists |-> TRUE, text |-> FetchedText(last'.fetch),
                           mtime |-> now]
             /\ (FetchedFor(k) /\ last'.write = "open_fails") => post = pre
             /\ (FetchedFor(k) /\ last'.write = "partial") =>
                   post = [exists |-> TRUE,
                           text |-> PrefixText(last'.fetch.body.val),
                           mtime |-> now]
             /\ ~FetchedFor(k) => post = pre]_vars

\* a stale file has been overwritten by a later fetch, after a failed write
\* had truncated it
C15_Witness ==
    /\ Called
    /\ last.pre_file.exists
    /\ last.pre_file.text.kind = "prefix"
    /\ last.pre_file.mtime < last.at
    /\ last.path = "fetch"
    /\ last.write = "ok"
    /\ Overwritten

(***************************************************************************)
(* C16: for both variants, a cache file that holds only a proper prefix of *)
(* the payload (a write that stopped half way) is treated by the next      *)
(* non-forced call as a cache miss that falls through to a refetch: the    *)
(* facade never returns a result derived from a partially written file.    *)
(***************************************************************************)
C16_TornWrite ==
    (/\ Called
     /\ ~last.force_refresh
     /\ last.pre_file.exists
     /\ last.pre_file.text.kind = "prefix") =>
        /\ last.path = "fetch"
        /\ last.gets = 1
        /\ last.result.kind = "returned" =>
              last.result = Returned(FetchedPayload(last.fetch))

(***************************************************************************)
(* C17: with two processes that share one stats file and each load it at   *)
(* start-up, updates are lost: every save writes the saving process's own  *)
(* counts, the count it loaded at start plus its own calls (or fetches),   *)
(* over those of the other process, so that once both have made a call the *)
(* counter on disk for the url is smaller than the count at start plus the *)
(* calls (or fetches) the two processes made for it.                       *)
(***************************************************************************)
\* the url's record in the stats file when the two processes started
Loaded(u) ==
    IF started.found = "map" THEN DictGet(MapFile.m, u, NewEntry) ELSE NewEntry

\* the calls and the fetches of the two processes for the url
TotalCalls(u) == hist[u].calls + other.hist[u].calls
TotalFetched(u) == hist[u].fetched + other.hist[u].fetched

C17_LostUpdates ==
    (Called /\ other.pid # 0 /\ LastSave = "ok") =>
        \A u \in URLs :
           /\ DiskEntry(u).requests = Loaded(u).requests + hist[u].calls
           /\ DiskEntry(u).api_fetches = Loaded(u).api_fetches + hist[u].fetched
           /\ other.hist[u].calls > 0 =>
                 DiskEntry(u).requests < Loaded(u).requests + TotalCalls(u)
           /\ other.hist[u].fetched > 0 =>
                 DiskEntry(u).api_fetches < Loaded(u).api_fetches + TotalFetched(u)

\* each process has made one call and one fetch for the url, and the file
\* shows one of each on top of what it showed at the start
C17_Witness ==
    /\ Called
    /\ other.pid # 0
    /\ LastSave = "ok"
    /\ hist["u1"].calls = 1
    /\ other.hist["u1"].calls = 1
    /\ hist["u1"].fetched = 1
    /\ other.hist["u1"].fetched = 1
    /\ DiskEntry("u1").requests = Loaded("u1").requests + 1
    /\ DiskEntry("u1").api_fetches = Loaded("u1").api_fetches + 1
    /\ TotalCalls("u1") = 2

(***************************************************************************)
(* C18, as claimed: each increment_request / increment_api_fetch performs  *)
(* a full load-mutate-save cycle against the stats file, so after every    *)
(* call the file on disk equals its content at the time of the call with   *)
(* exactly the called url's counter incremented by one and every other     *)
(* entry unchanged.  Stated for the facade calls all of whose saves        *)
(* succeeded: requests is one more, api_fetches one more if the call       *)
(* recorded a fetch.                                                       *)
(***************************************************************************)
\* the url's record in the stats file before the call
PreDiskEntry(u) ==
    IF last.pre_stats_file.kind = "map"
    THEN DictGet(last.pre_stats_file.m, u, NewEntry) ELSE NewEntry

\* the url's record in the tracker's memory before the call
PreMemEntry(u) == DictGet(last.pre_data.m, u, NewEntry)

\* the record with what the call counted for its url
Counted(entry, u) ==
    IF u # last.url THEN entry
    ELSE [requests |-> entry.requests + 1,
          api_fetches |-> entry.api_fetches + IF last.save2 = "none" THEN 0 ELSE 1]

AllSaved ==
    /\ Called
    /\ last.save1 = "ok"
    /\ last.save2 \in {"ok", "none"}

C18_AsClaimed ==
    AllSaved =>
        /\ stats_file.kind = "map"
        /\ \A u \in URLs : DiskEntry(u) = Counted(PreDiskEntry(u), u)

(***************************************************************************)
(* C18, amended: each increment_request / increment_api_fetch mutates the  *)
(* copy the process loaded once, when it was constructed, and saves that   *)
(* whole copy; nothing is loaded at a call.  After every call whose save   *)
(* succeeded the file on disk equals the process's copy: what the copy     *)
(* held before the call with exactly the called url's counter incremented  *)
(* by one and every other entry unchanged.  That is the file's content at  *)
(* the time of the call with that increment only when the file then held   *)
(* what the copy held (no save of this process failed and no other process *)
(* wrote the file in between).                                             *)
(***************************************************************************)
C18_MutateSave ==
    AllSaved =>
        /\ stats_file = [kind |-> "map", m |-> _data.m]
        /\ \A u \in URLs : MemEntry(u) = Counted(PreMemEntry(u), u)
        /\ (\A u \in URLs : DiskEntry(u) = Counted(PreDiskEntry(u), u)) <=>
              (\A u \in URLs : PreDiskEntry(u) = PreMemEntry(u))

\* the other process had counted a call for another url since this one
\* started, and this process's save put its own copy over that count
C18_Witness ==
    /\ AllSaved
    /\ other.pid # 0
    /\ last.save2 = "ok"
    /\ PreDiskEntry("u1") = PreMemEntry("u1")
    /\ PreDiskEntry("u2") # PreMemEntry("u2")
    /\ last.url = "u1"
    /\ DiskEntry("u2") = MemEntry("u2")
    /\ DiskEntry("u2").requests < PreDiskEntry("u2").requests

(***************************************************************************)
(* C19: for both variants, api_fetches for a url is incremented only by a  *)
(* facade call in which the remote fetch was made and succeeded; a call    *)
(* served from cache, and a call whose fetch failed (transport, HTTP,      *)
(* decode or unexpected failure), leaves api_fetches unchanged while still *)
(* incrementing requests by exactly one.  Stated of the counts a tracker   *)
(* keeps, for a tracker whose data is a mapping.                           *)
(***************************************************************************)
C19_Pre ==
    /\ Called
    /\ last.pre_data.kind = "map"

C19_ApiFetchOnlyOnSuccess ==
    C19_Pre =>
        /\ MemEntry(last.url).requests = last.pre_entry.requests + 1
        /\ MemEntry(last.url).api_fetches \in
              {last.pre_entry.api_fetches, last.pre_entry.api_fetches + 1}
        /\ MemEntry(last.url).api_fetches = last.pre_entry.api_fetches + 1 =>
              /\ last.path = "fetch"
              /\ last.gets = 1
              /\ FetchOk(last.fetch)
              /\ last.result = Returned(FetchedPayload(last.fetch))
        /\ (last.path = "hit" \/ ~FetchOk(last.fetch)) =>
              MemEntry(last.url).api_fetches = last.pre_entry.api_fetches
        /\ \A u \in URLs \ {last.url} : MemEntry(u) = PreMemEntry(u)

\* a call whose fetch failed after an earlier call had fetched
C19_Witness ==
    /\ C19_Pre
    /\ last.gets = 1
    /\ last.result.kind = "raised"
    /\ last.pre_entry = [requests |-> 1, api_fetches |-> 1]
    /\ MemEntry(last.url) = [requests |-> 2, api_fetches |-> 1]

(***************************************************************************)
(* C20: every facade call issues at most one GET request; it issues        *)
(* exactly one when force_refresh is true or the cache file is absent,     *)
(* stale (the variant's freshness test fails) or unreadable, and none      *)
(* otherwise; when that one request fails the call ends with a failure     *)
(* and no second request is issued.                                        *)
(***************************************************************************)
\* the call had to go to the remote
MustFetch ==
    \/ last.force_refresh
    \/ ~last.pre_file.exists
    \/ ~CodeFresh(last.pre_file.mtime)
    \/ ~Decodable(last.pre_file.text)
    \/ last.read = "failed"

C20_SingleAttempt ==
    Called =>
        /\ last.gets \in {0, 1}
        /\ last.gets = 1 <=> MustFetch
        /\ last.gets = 1 <=> last.fetch # NoFetch
        /\ (variant = "json" /\ ~last.force_refresh /\ last.pre_file.exists
              /\ Age > cache_expiry_days * SecondsPerDay) => last.gets = 1
        /\ (last.gets = 1 /\ ~FetchOk(last.fetch)) =>
              /\ last.result.kind = "raised"
              /\ last.result.tag \in FetchTags
              /\ FileOf(cache_files, last.cache_key) = last.pre_file
        /\ hist[last.url].gets <= hist[last.url].calls

\* a stale file, one request that failed, and the call raised
C20_Witness ==
    /\ Called
    /\ ~last.force_refresh
    /\ last.pre_file.exists
    /\ ~CodeFresh(last.pre_file.mtime)
    /\ last.gets = 1
    /\ last.fetch.kind = "read_error"
    /\ last.result.kind = "raised"
    /\ hist[last.url].calls = 2
    /\ hist[last.url].gets = 2

(***************************************************************************)
(* C21, as claimed: for every opening tag that carries a data-id           *)
(* attribute, whatever the element name, the record for that id takes      *)
(* pct_now and pct_tonight only from the data-now / data-tonight           *)
(* attributes inside that same tag; a tag without them yields absent       *)
(* fields and never inherits values from a neighbouring tag.               *)
(***************************************************************************)
\* the tag carries a data-id attribute whose value starts with digits
IdAttrs(tag, names) ==
    {i \in 1..Len(tag.attrs) :
       tag.attrs[i].name \in names /\ IdOf(tag.attrs[i].val).ok}
CarriesId(tag) == IdAttrs(tag, {"data-id", "DATA-ID"}) # {}
TagId(tag) == IdOf(tag.attrs[Max(IdAttrs(tag, {"data-id", "DATA-ID"}))].val).id

\* the number in the tag's own attribute of that name, None without one
OwnFloat(tag, name) ==
    LET P == {i \in 1..Len(tag.attrs) :
                tag.attrs[i].name = name /\ tag.attrs[i].val # ""}
    IN  IF P = {} THEN None ELSE Float(tag.attrs[Min(P)].val)

\* the record built from the tag alone
OwnRecord(tag) ==
    [id |-> TagId(tag), pct_now |-> OwnFloat(tag, "data-now"),
     pct_tonight |-> OwnFloat(tag, "data-tonight")]

\* the first of the tags at the places T that carries the id
FirstTagOf(T, id) == Min({i \in T : TagId(html_in[i]) = id})

C21_AsClaimed ==
    parsed # NoParse =>
        LET T == {i \in 1..Len(html_in) : CarriesId(html_in[i])}
        IN  \A i \in T :
               \E n \in 1..Len(parsed.players) :
                  parsed.players[n] =
                     OwnRecord(html_in[FirstTagOf(T, TagId(html_in[i]))])

(***************************************************************************)
(* C21, amended: the primary strategy matches opening div tags only (the   *)
(* element name in any case).  For every opening div tag that carries a    *)
(* data-id attribute, the record for that id takes pct_now and pct_tonight *)
(* only from the data-now / data-tonight attributes inside that same tag;  *)
(* a div tag without them yields absent fields and never inherits values   *)
(* from a neighbouring tag.  A tag of another element that carries a       *)
(* data-id yields no record when the document has such a div tag; when it  *)
(* has none, the fallback strategy makes a record for every data-id and    *)
(* takes each field from the first data-now / data-tonight attribute in    *)
(* the 300 characters from the data-id on, in that tag or in a later one.  *)
(***************************************************************************)
C21_DivTagsOnly ==
    parsed # NoParse =>
        LET players == parsed.players
            D == {i \in 1..Len(html_in) :
                    Lower(html_in[i].elem) = "div" /\ CarriesId(html_in[i])}
            F == {i \in 1..Len(html_in) : IdAttrs(html_in[i], {"data-id"}) # {}}
            \* the numbers in the attributes of that name from tag j on
            Later(j, name) ==
                UNION {{Float(html_in[k].attrs[a].val) :
                          a \in {b \in 1..Len(html_in[k].attrs) :
                                   html_in[k].attrs[b].name = name}} :
                       k \in j..Len(html_in)}
        IN  IF D # {}
            THEN /\ {players[n].id : n \in 1..Len(players)} =
                       {TagId(html_in[i]) : i \in D}
                 /\ \A n \in 1..Len(players) :
                       players[n] = OwnRecord(html_in[FirstTagOf(D, players[n].id)])
            ELSE /\ {players[n].id : n \in 1..Len(players)} =
                       {TagId(html_in[i]) : i \in F}
                 /\ \A n \in 1..Len(players) :
                       LET j == FirstTagOf(F, players[n].id)
                       IN  /\ players[n].pct_now \in {None} \cup Later(j, "data-now")
                           /\ players[n].pct_tonight \in
                                 {None} \cup Later(j, "data-tonight")

\* a div tag with an id and no data-tonight, then a span tag with another id
\* and a data-tonight: one record, the div's, without a pct_tonight
C21_Witness ==
    /\ parsed # NoParse
    /\ Len(html_in) = 2
    /\ html_in[1].elem = "div"
    /\ html_in[2].elem = "span"
    /\ CarriesId(html_in[1])
    /\ CarriesId(html_in[2])
    /\ TagId(html_in[1]) # TagId(html_in[2])
    /\ OwnFloat(html_in[1], "data-tonight") = None
    /\ OwnFloat(html_in[2], "data-tonight") # None
    /\ parsed.players = <<OwnRecord(html_in[1])>>

(***************************************************************************)
(* C22: in a single process that started from an empty stats mapping,      *)
(* after any sequence of facade calls (hits, successful fetches and failed *)
(* fetches, in either variant) every URL's stats record has                *)
(* api_fetches <= requests, and no call makes either counter smaller.      *)
(***************************************************************************)
\* the tracker of the running process began with an empty mapping: it found
\* no stats file, or one it could not load
StartedEmpty ==
    \/ started.found \in {"missing", "corrupt"}
    \/ ~started.readable

C22_FetchesWithinRequests ==
    StartedEmpty =>
        /\ \A u \in URLs : MemEntry(u).api_fetches <= MemEntry(u).requests
        /\ Called =>
              \A u \in URLs :
                 /\ MemEntry(u).requests >= PreMemEntry(u).requests
                 /\ MemEntry(u).api_fetches >= PreMemEntry(u).api_fetches

\* a successful fetch, then a failed one: two requests, one api fetch
C22_Witness ==
    /\ StartedEmpty
    /\ Called
    /\ last.path = "fetch"
    /\ last.result.kind = "raised"
    /\ hist[last.url].calls = 2
    /\ hist[last.url].fetched = 1
    /\ PreMemEntry(last.url) = [requests |-> 1, api_fetches |-> 1]
    /\ MemEntry(last.url) = [requests |-> 2, api_fetches |-> 1]

(***************************************************************************)
(* C23: when the remote fetch path is taken (force_refresh, or the entry   *)
(* stale or absent) and the fetch fails, the facade raises a tagged        *)
(* failure to the caller even if a readable cache file for the key exists; *)
(* a stale or bypassed cached payload is never returned in place of a      *)
(* failed fetch: what a call on the fetch path returns is the payload it   *)
(* fetched.                                                                *)
(***************************************************************************)
\* the call went to the remote and the remote did not answer 200 with a body
\* the variant can decode
FetchFailed ==
    /\ Called
    /\ last.path = "fetch"
    /\ last.fetch # NoFetch
    /\ ~FetchOk(last.fetch)

\* the key had a cache file that can be read and decoded
HadReadableFile ==
    /\ last.pre_file.exists
    /\ Decodable(last.pre_file.text)
    /\ last.read # "failed"

C23_NoStaleFallback ==
    /\ FetchFailed =>
          /\ last.result.kind = "raised"
          /\ last.result.tag \in FetchTags
          /\ HadReadableFile =>
                last.result # Returned(CachedPayload(last.pre_file.text))
    /\ (Called /\ last.path = "fetch" /\ last.result.kind = "returned") =>
          /\ FetchOk(last.fetch)
          /\ last.result = Returned(FetchedPayload(last.fetch))

\* a fresh, readable file bypassed with force_refresh, and a stale readable
\* file: the request failed and the call raised
C23_Witness ==
    /\ FetchFailed
    /\ HadReadableFile
    /\ \/ last.force_refresh /\ CodeFresh(last.pre_file.mtime)
       \/ ~last.force_refresh /\ ~CodeFresh(last.pre_file.mtime)
    /\ last.result.kind = "raised"
    /\ last.result.tag = "Network Error"
    /\ FileOf(cache_files, last.cache_key) = last.pre_file

(***************************************************************************)
(* C24: a cache hit does not change the cache file's modification time:    *)
(* the file changes only when a call fetched a payload and wrote it, and   *)
(* its modification time is then the time of that call.  A non-forced call *)
(* that finds a file a day old or older performs a remote fetch.           *)
(* Consequently, while the clock keeps advancing and only non-forced calls *)
(* are made, an entry that was read from the cache and that is a day old   *)
(* before the modelled time ends is followed by a call that performs a     *)
(* remote fetch, however often the entry was read in between.              *)
(***************************************************************************)
\* the end of the modelled time
Horizon == MaxTime * TickSeconds

C24_HitKeepsMtime ==
    Called =>
        /\ last.path = "hit" =>
              FileOf(cache_files, last.cache_key) = last.pre_file
        /\ FileOf(cache_files, last.cache_key) # last.pre_file =>
              /\ last.path = "fetch"
              /\ FetchOk(last.fetch)
              /\ last.write \in {"ok", "partial"}
              /\ cache_files[last.cache_key].mtime = last.at
        /\ (~last.force_refresh /\ last.pre_file.exists
              /\ last.at - last.pre_file.mtime >= SecondsPerDay) =>
              /\ last.path = "fetch"
              /\ last.gets = 1

\* the entry was served from the cache and the clock will reach its first day
ReadWithTimeLeft ==
    /\ Called
    /\ last.path = "hit"
    /\ last.pre_file.mtime + SecondsPerDay <= Horizon

\* a non-forced call went to the remote
FetchedUnforced ==
    /\ Called
    /\ ~last.force_refresh
    /\ last.gets = 1

C24_ReadsDoNotExtendFreshness ==
    /\ []C24_HitKeepsMtime
    /\ ReadWithTimeLeft ~> FetchedUnforced

\* a file that a fetch of this behaviour wrote, read from the cache at a
\* later time and left as it was
C24_Witness ==
    /\ ReadWithTimeLeft
    /\ last.cache_key \in DOMAIN populated
    /\ populated[last.cache_key].at = last.pre_file.mtime
    /\ last.at > last.pre_file.mtime
    /\ FileOf(cache_files, last.cache_key) = last.pre_file
    /\ cache_files[last.cache_key].mtime < now

(***************************************************************************)
(* C25: stats are keyed by URL and cache files by cache_key only.  A       *)
(* facade call with (url, cache_key) changes no stats record other than    *)
(* url's and no cache file other than cache_key's; its own record it       *)
(* counts the call in.  The cache lookup ignores the URL: a call that      *)
(* finds the key's entry fresh issues no request and returns the payload   *)
(* that the call which wrote the entry fetched, from whatever URL that     *)
(* call fetched it, while the two calls are counted under their own URLs'  *)
(* stats records.                                                          *)
(***************************************************************************)
\* this step is a facade call
CallStep == calls' = calls + 1 /\ last' # NoCall

C25_Frame ==
    CallStep =>
        /\ \A u \in URLs \ {last'.url} :
              /\ MemEntry(u)' = MemEntry(u)
              /\ u \in DOMAIN _data'.m <=> u \in DOMAIN _data.m
              /\ hist'[u] = hist[u]
              \* a record that the stats file had as the tracker has it
              /\ (stats_file.kind = "map" /\ DiskEntry(u) = MemEntry(u)) =>
                    DiskEntry(u)' = DiskEntry(u)
        /\ \A k \in Keys \ {last'.cache_key} :
              FileOf(cache_files', k) = FileOf(cache_files, k)
        /\ DictGet(_data'.m, last'.url, NewEntry).requests =
              DictGet(_data.m, last'.url, NewEntry).requests + 1

C25_SharedEntry ==
    (Called /\ last.path = "hit" /\ last.cache_key \in DOMAIN populated
        /\ Populating.write = "ok") =>
        /\ last.gets = 0
        /\ last.pre_file.text = FetchedText(Populating.fetch)
        /\ last.result = Returned(CachedPayload(FetchedText(Populating.fetch)))
        /\ SamePayload(last.result, Populating.result)
        /\ MemEntry(last.url) =
              [PreMemEntry(last.url) EXCEPT !.requests = @ + 1]
        /\ hist[Populating.url].fetched >= 1

C25_KeyingAndFrame == [][C25_Frame]_vars /\ []C25_SharedEntry

\* the first call fetched from one url and wrote the key's file; the second,
\* with the other url and the same key, is served that payload and is
\* counted under its own url; the other key's file stands
C25_Witness ==
    /\ Called
    /\ last.path = "hit"
    /\ last.cache_key \in DOMAIN populated
    /\ Populating.write = "ok"
    /\ Populating.url # last.url
    /\ SamePayload(last.result, Populating.result)
    /\ hist[last.url] = [calls |-> 1, gets |-> 0, fetched |-> 0]
    /\ hist[Populating.url] = [calls |-> 1, gets |-> 1, fetched |-> 1]
    /\ MemEntry(last.url).requests = PreMemEntry(last.url).requests + 1
    /\ MemEntry(last.url).api_fetches = PreMemEntry(last.url).api_fetches
    /\ \E k \in DOMAIN cache_files : k # last.cache_key

====
